---------------------------- MODULE Spec2Model ----------------------------
(***************************************************************************)
(* A model of donut.c: a rotating torus rendered as ASCII art on a         *)
(* terminal in raw mode until a quit key or a read failure stops it.       *)
(*                                                                         *)
(* Numbers.  Angles are counted in hundredths of a radian, so the source's *)
(* steps 0.04, 0.02 (rotation) and 0.02, 0.07 (sampling) are the integers  *)
(* 4, 2, 2 and 7 and the loop limit 6.28 is 628.  The float arithmetic of  *)
(* the sampling loop is carried out in fixed point with three decimals     *)
(* (FixedOne = 1.0); sin and cos are tables of libm's values rounded to    *)
(* that resolution.  The depth D is kept with six decimals.  Conversions   *)
(* to int truncate toward zero, as C's do.                                 *)
(*                                                                         *)
(* Two specifications.  Spec is the whole program: argument parsing, raw   *)
(* mode, the frame loop with its input poll, the exit path with the atexit *)
(* hook; a frame is rendered there in one step.  SpecRender starts at the  *)
(* top of the loop body of some frame n (A = n*0.04, B = n*0.02, buffers   *)
(* as frame n-1 left them) and runs the sampling loop one sample at a      *)
(* time.  Both visit NumJ of the outer loop's positions and NumI of the    *)
(* inner loop's, evenly spread over the positions the source visits.       *)
(***************************************************************************)
EXTENDS Integers, Sequences, FiniteSets, TLC

VARIABLES
  pc,            \* position in main
  argv1,         \* argv[1]: "" when absent
  argv2,         \* argv[2] as strtof sees it (SpeedArgs)
  speedFactor,   \* [num, den]: the float speedFactor as a fraction
  orig_termios,  \* the saved settings ("unset" before tcgetattr)
  tty,           \* the terminal's settings: "cooked" or "raw"
  cursor,        \* "shown" or "hidden"
  hooks,         \* number of atexit registrations of disableRawMode
  enableCalls,   \* times enableRawMode was entered
  disableCalls,  \* times disableRawMode ran
  input,         \* bytes typed and not yet read, oldest first
  quit,          \* main's quit
  bytes_read,    \* result of the last read()
  input_char,    \* main's input_char
  errno,         \* errno as the last read() left it
  A, B,          \* rotation angles, hundredths of a radian
  i, j,          \* sampling loop positions (index of the modelled position)
  b, z,          \* frame buffer and depth buffer
  loc,           \* the loop body's locals for the sample evaluated last
  acc,           \* buffer offsets that sample dereferenced
  ub,            \* an access outside the buffers has happened
  emitted,       \* frames written to stdout
  sleepUs,       \* argument of the last usleep
  frames,        \* completed iterations of the loop body
  exit_status,   \* -1 while the process runs
  restoreRc,     \* what tcsetattr returned in disableRawMode
  ahead, waited  \* history: bytes ahead of the oldest pending quit key when
                 \* it was typed, and polls done since

vars == <<pc, argv1, argv2, speedFactor, orig_termios, tty, cursor, hooks,
          enableCalls, disableCalls, input, quit, bytes_read, input_char,
          errno, A, B, i, j, b, z, loc, acc, ub, emitted, sleepUs, frames,
          exit_status, restoreRc, ahead, waited>>

(***************************************************************************)
(* Bounds of the model.                                                    *)
(***************************************************************************)
NumI == 32
NumJ == 8
MaxRenderFrame == 13
MaxFrames == 2
MaxPending == 2

(***************************************************************************)
(* Program constants.                                                      *)
(***************************************************************************)
Width == 80
Height == 22
Cells == 1760
LoopLimit == 628
IStep == 2
JStep == 7
AStep == 4
BStep == 2
XCenter == 40
YCenter == 12
XScale == 30
YScale == 15
ViewerDistance == 5
TubeOffset == 2
LuminanceScale == 8
baseSleep == 33333
FixedOne == 1000

Space == " "
Ramp == <<".", ",", "-", "~", ":", ";", "=", "!", "*", "#", "$", "@">>
\* What a read of memory the program never wrote yields.
Indet == "?"

SinTable ==
  <<
    0, 10, 20, 30, 40, 50, 60, 70, 80, 90, 100, 110, 120, 130, 140, 149,
    159, 169, 179, 189, 199, 208, 218, 228, 238, 247, 257, 267, 276, 286, 296, 305,
    315, 324, 333, 343, 352, 362, 371, 380, 389, 399, 408, 417, 426, 435, 444, 453,
    462, 471, 479, 488, 497, 506, 514, 523, 531, 540, 548, 556, 565, 573, 581, 589,
    597, 605, 613, 621, 629, 637, 644, 652, 659, 667, 674, 682, 689, 696, 703, 710,
    717, 724, 731, 738, 745, 751, 758, 764, 771, 777, 783, 790, 796, 802, 808, 813,
    819, 825, 830, 836, 841, 847, 852, 857, 862, 867, 872, 877, 882, 887, 891, 896,
    900, 904, 909, 913, 917, 921, 925, 928, 932, 936, 939, 942, 946, 949, 952, 955,
    958, 961, 964, 966, 969, 971, 973, 976, 978, 980, 982, 984, 985, 987, 989, 990,
    991, 993, 994, 995, 996, 997, 997, 998, 999, 999, 1000, 1000, 1000, 1000, 1000, 1000,
    1000, 999, 999, 998, 998, 997, 996, 995, 994, 993, 992, 990, 989, 987, 986, 984,
    982, 980, 978, 976, 974, 972, 969, 967, 964, 961, 958, 956, 953, 949, 946, 943,
    940, 936, 933, 929, 925, 921, 917, 913, 909, 905, 901, 896, 892, 887, 883, 878,
    873, 868, 863, 858, 853, 848, 842, 837, 831, 826, 820, 814, 808, 803, 797, 790,
    784, 778, 772, 765, 759, 752, 746, 739, 732, 725, 718, 711, 704, 697, 690, 683,
    675, 668, 661, 653, 645, 638, 630, 622, 614, 606, 598, 590, 582, 574, 566, 558,
    549, 541, 533, 524, 516, 507, 498, 490, 481, 472, 463, 454, 445, 436, 427, 418,
    409, 400, 391, 382, 372, 363, 354, 344, 335, 326, 316, 307, 297, 287, 278, 268,
    259, 249, 239, 230, 220, 210, 200, 190, 181, 171, 161, 151, 141, 131, 121, 111,
    101, 91, 82, 72, 62, 52, 42, 32, 22, 12, 2, -8, -18, -28, -38, -48,
    -58, -68, -78, -88, -98, -108, -118, -128, -138, -148, -158, -168, -177, -187, -197, -207,
    -217, -226, -236, -246, -256, -265, -275, -284, -294, -304, -313, -323, -332, -341, -351, -360,
    -369, -379, -388, -397, -406, -415, -424, -434, -443, -451, -460, -469, -478, -487, -495, -504,
    -513, -521, -530, -538, -547, -555, -563, -572, -580, -588, -596, -604, -612, -620, -628, -635,
    -643, -651, -658, -666, -673, -680, -688, -695, -702, -709, -716, -723, -730, -737, -744, -750,
    -757, -763, -770, -776, -782, -789, -795, -801, -807, -812, -818, -824, -830, -835, -841, -846,
    -851, -856, -862, -867, -872, -876, -881, -886, -890, -895, -899, -904, -908, -912, -916, -920,
    -924, -928, -931, -935, -939, -942, -945, -948, -952, -955, -958, -960, -963, -966, -968, -971,
    -973, -975, -978, -980, -982, -983, -985, -987, -988, -990, -991, -993, -994, -995, -996, -997,
    -997, -998, -999, -999, -999, -1000, -1000, -1000, -1000, -1000, -1000, -999, -999, -998, -998, -997,
    -996, -995, -994, -993, -992, -991, -989, -988, -986, -984, -982, -981, -979, -976, -974, -972,
    -970, -967, -964, -962, -959, -956, -953, -950, -947, -944, -940, -937, -933, -930, -926, -922,
    -918, -914, -910, -906, -901, -897, -893, -888, -883, -879, -874, -869, -864, -859, -854, -849,
    -843, -838, -832, -827, -821, -815, -809, -804, -798, -791, -785, -779, -773, -766, -760, -753,
    -747, -740, -733, -726, -720, -713, -706, -698, -691, -684, -677, -669, -662, -654, -647, -639,
    -631, -623, -616, -608, -600, -592, -584, -575, -567, -559, -551, -542, -534, -525, -517, -508,
    -500, -491, -482, -473, -465, -456, -447, -438, -429, -420, -411, -402, -392, -383, -374, -365,
    -355, -346, -336, -327, -318, -308, -299, -289, -279, -270, -260, -250, -241, -231, -221, -212,
    -202, -192, -182, -172, -162, -153, -143, -133, -123, -113, -103, -93, -83, -73, -63, -53,
    -43, -33, -23, -13
  >>
CosTable ==
  <<
    1000, 1000, 1000, 1000, 999, 999, 998, 998, 997, 996, 995, 994, 993, 992, 990, 989,
    987, 986, 984, 982, 980, 978, 976, 974, 971, 969, 966, 964, 961, 958, 955, 952,
    949, 946, 943, 939, 936, 932, 929, 925, 921, 917, 913, 909, 905, 900, 896, 892,
    887, 882, 878, 873, 868, 863, 858, 853, 847, 842, 836, 831, 825, 820, 814, 808,
    802, 796, 790, 784, 778, 771, 765, 758, 752, 745, 738, 732, 725, 718, 711, 704,
    697, 689, 682, 675, 667, 660, 652, 645, 637, 629, 622, 614, 606, 598, 590, 582,
    574, 565, 557, 549, 540, 532, 523, 515, 506, 498, 489, 480, 471, 462, 454, 445,
    436, 427, 418, 408, 399, 390, 381, 372, 362, 353, 344, 334, 325, 315, 306, 296,
    287, 277, 267, 258, 248, 238, 229, 219, 209, 199, 190, 180, 170, 160, 150, 140,
    130, 121, 111, 101, 91, 81, 71, 61, 51, 41, 31, 21, 11, 1, -9, -19,
    -29, -39, -49, -59, -69, -79, -89, -99, -109, -119, -129, -139, -149, -159, -168, -178,
    -188, -198, -208, -217, -227, -237, -247, -256, -266, -276, -285, -295, -304, -314, -323, -333,
    -342, -352, -361, -370, -379, -389, -398, -407, -416, -425, -434, -443, -452, -461, -470, -479,
    -487, -496, -505, -513, -522, -531, -539, -547, -556, -564, -572, -580, -589, -597, -605, -612,
    -620, -628, -636, -644, -651, -659, -666, -674, -681, -688, -696, -703, -710, -717, -724, -731,
    -737, -744, -751, -757, -764, -770, -777, -783, -789, -795, -801, -807, -813, -819, -824, -830,
    -836, -841, -846, -852, -857, -862, -867, -872, -877, -882, -886, -891, -895, -900, -904, -908,
    -912, -916, -920, -924, -928, -932, -935, -939, -942, -946, -949, -952, -955, -958, -961, -963,
    -966, -969, -971, -973, -976, -978, -980, -982, -984, -985, -987, -989, -990, -991, -993, -994,
    -995, -996, -997, -997, -998, -999, -999, -1000, -1000, -1000, -1000, -1000, -1000, -1000, -999, -999,
    -998, -998, -997, -996, -995, -994, -993, -992, -990, -989, -987, -986, -984, -982, -980, -978,
    -976, -974, -972, -969, -967, -964, -961, -959, -956, -953, -950, -947, -943, -940, -936, -933,
    -929, -926, -922, -918, -914, -910, -905, -901, -897, -892, -888, -883, -878, -874, -869, -864,
    -859, -853, -848, -843, -837, -832, -826, -821, -815, -809, -803, -797, -791, -785, -779, -772,
    -766, -759, -753, -746, -740, -733, -726, -719, -712, -705, -698, -691, -683, -676, -669, -661,
    -654, -646, -638, -631, -623, -615, -607, -599, -591, -583, -575, -567, -558, -550, -542, -533,
    -525, -516, -508, -499, -490, -482, -473, -464, -455, -446, -437, -428, -419, -410, -401, -392,
    -382, -373, -364, -355, -345, -336, -326, -317, -307, -298, -288, -279, -269, -259, -250, -240,
    -230, -221, -211, -201, -191, -181, -172, -162, -152, -142, -132, -122, -112, -102, -92, -82,
    -72, -62, -52, -42, -32, -22, -12, -2, 8, 18, 28, 38, 48, 58, 68, 78,
    87, 97, 107, 117, 127, 137, 147, 157, 167, 177, 187, 196, 206, 216, 226, 235,
    245, 255, 264, 274, 284, 293, 303, 312, 322, 331, 341, 350, 359, 369, 378, 387,
    396, 406, 415, 424, 433, 442, 451, 460, 469, 477, 486, 495, 503, 512, 521, 529,
    538, 546, 554, 563, 571, 579, 587, 595, 603, 611, 619, 627, 635, 642, 650, 658,
    665, 673, 680, 687, 694, 702, 709, 716, 723, 730, 736, 743, 750, 756, 763, 769,
    776, 782, 788, 794, 800, 806, 812, 818, 824, 829, 835, 840, 846, 851, 856, 861,
    866, 871, 876, 881, 886, 890, 895, 899, 903, 908, 912, 916, 920, 924, 927, 931,
    935, 938, 942, 945, 948, 951, 954, 957, 960, 963, 966, 968, 971, 973, 975, 977,
    979, 981, 983, 985, 987, 988, 990, 991, 992, 994, 995, 996, 997, 997, 998, 999,
    999, 999, 1000, 1000
  >>
(***************************************************************************)
(* Arithmetic of the sampling loop.                                        *)
(***************************************************************************)
\* C's conversion and division: toward zero.
Trunc[a \in Int, d \in Int] == IF a >= 0 THEN a \div d ELSE -((-a) \div d)

\* Product of two fixed-point numbers.
FMul(u, v) == Trunc[u * v, FixedOne]

Sin(a) == SinTable[a + 1]
Cos(a) == CosTable[a + 1]

\* Positions the source's loops visit: 0, step, 2*step, ... below 6.28.
ICount == (LoopLimit + IStep - 1) \div IStep
JCount == (LoopLimit + JStep - 1) \div JStep
\* The k-th modelled position of each loop, as an angle.
IAngle(k) == IStep * ((ICount * k) \div NumI)
JAngle(k) == JStep * ((JCount * k) \div NumJ)

\* Lines 190-198: the locals of one sample, named as in the source.  Each is
\* an operator of the locals it is computed from.
\* h = d + 2
TubeH(d) == d + TubeOffset * FixedOne

\* D = 1 / (c * h * e + f * g + 5), with six decimals
Depth(c, h, e, f, g) ==
  (FixedOne * FixedOne * FixedOne)
    \div (FMul(FMul(c, h), e) + FMul(f, g) + ViewerDistance * FixedOne)

\* t = c * h * g - f * e
Tilt(c, h, g, f, e) == FMul(FMul(c, h), g) - FMul(f, e)

\* int x = 40 + 30 * D * (l * h * m - t * n)
ScreenX(D, l, h, m, t, n) ==
  Trunc[XCenter * FixedOne * FixedOne
          + Trunc[XScale * D, FixedOne] * (FMul(FMul(l, h), m) - FMul(t, n)),
        FixedOne * FixedOne]

\* int y = 12 + 15 * D * (l * h * n + t * m)
ScreenY(D, l, h, m, t, n) ==
  Trunc[YCenter * FixedOne * FixedOne
          + Trunc[YScale * D, FixedOne] * (FMul(FMul(l, h), n) + FMul(t, m)),
        FixedOne * FixedOne]

\* int N = 8 * ((f * e - c * d * g) * m - c * d * e - f * g - l * d * n)
Luminance(c, d, e, f, g, l, m, n) ==
  Trunc[LuminanceScale
          * (FMul(FMul(f, e) - FMul(FMul(c, d), g), m)
               - FMul(FMul(c, d), e) - FMul(f, g) - FMul(FMul(l, d), n)),
        FixedOne]

\* o = x + 80 * y
Located(x, y, D, N) == [x |-> x, y |-> y, o |-> x + Width * y, D |-> D, N |-> N]

Projected(l, h, m, n, D, t, N) ==
  Located(ScreenX(D, l, h, m, t, n), ScreenY(D, l, h, m, t, n), D, N)

WithTrig(c, d, e, f, g, l, m, n) ==
  Projected(l, TubeH(d), m, n, Depth(c, TubeH(d), e, f, g),
            Tilt(c, TubeH(d), g, f, e), Luminance(c, d, e, f, g, l, m, n))

\* The locals of the sample at inner angle ia, outer angle ja, rotation a, bb.
Sample(a, bb, ia, ja) ==
  WithTrig(Sin(ia), Cos(ja), Sin(a), Sin(ja), Cos(a), Cos(ia), Cos(bb), Sin(bb))

\* Line 201, the coordinate part of the condition.
\* (CoordTestRow0: the faulty variant that lets row 0 through.)
CoordTestRow0(x, y) == Height > y /\ y >= 0 /\ x > 0 /\ Width > x
CoordTest(x, y) == Height > y /\ y > 0 /\ x > 0 /\ Width > x

\* Line 201: && evaluates z[o] only after the coordinate part held, and the
\* body then writes z[o] and b[o]: the offsets one sample dereferences.
Touched(x, y, o) == IF CoordTest(x, y) THEN {o} ELSE {}

\* Line 205: the index into the ramp.
\* (RampIndexRaw: the faulty variant without the N > 0 guard.)
RampIndexRaw(N) == N
RampIndex(N) == IF N > 0 THEN N ELSE 0

\* Line 205: the ramp literal read at that index.
Glyph(N) ==
  LET k == RampIndex(N)
  IN  IF k \in 0..(Len(Ramp) - 1) THEN Ramp[k + 1] ELSE Indet

\* Line 201, the depth part of the condition.
\* (DepthTestLast: the faulty variant that lets an equal depth overwrite.)
DepthTestLast(D, stored) == D >= stored
DepthTest(D, stored) == D > stored

\* Lines 201-206 for a sample with locals s, on the buffers rs.
DepthWrite(rs, s) ==
  LET t == Touched(s.x, s.y, s.o)
      inside == t \subseteq (0..(Cells - 1))
      hit == t # {} /\ inside /\ DepthTest(s.D, rs.z[s.o])
  IN  [b   |-> IF hit THEN [rs.b EXCEPT ![s.o] = Glyph(s.N)] ELSE rs.b,
       z   |-> IF hit THEN [rs.z EXCEPT ![s.o] = s.D] ELSE rs.z,
       ub  |-> rs.ub \/ ~inside,
       loc |-> [x |-> s.x, y |-> s.y, o |-> s.o, D |-> s.D, N |-> s.N, hit |-> hit],
       acc |-> t]

\* Lines 190-206: one execution of the inner loop's body on the buffers rs.
SampleStep(rs, a, bb, ia, ja) == DepthWrite(rs, Sample(a, bb, ia, ja))

\* Lines 182-183.
\* (MemsetKeep: the faulty variant that clears nothing.)
MemsetKeep(buf, v) == buf
Memset(buf, v) == [k \in DOMAIN buf |-> v]

\* The samples of a frame as <<i position, j position>>, in the order of
\* lines 186-188: j outside, i inside.
CodeOrder ==
  [k \in 1..(NumI * NumJ) |-> <<(k - 1) % NumI, (k - 1) \div NumI>>]

\* The loop body run over samples lo..hi of the order given, one after the
\* other.  The range is split in halves, and the first half's result is
\* bound as a value before the second half starts, only to keep TLC's
\* evaluation shallow and single.
RECURSIVE RenderFrom(_, _, _, _, _, _)
RenderFrom(order, lo, hi, a, bb, rs) ==
  IF lo > hi THEN rs
  ELSE IF lo = hi
    THEN SampleStep(rs, a, bb, IAngle(order[lo][1]), JAngle(order[lo][2]))
    ELSE LET mid == (lo + hi) \div 2
         IN  CHOOSE r \in {RenderFrom(order, mid + 1, hi, a, bb, first) :
                             first \in {RenderFrom(order, lo, mid, a, bb, rs)}} : TRUE

NoLoc == [x |-> 0, y |-> 0, o |-> 0, D |-> 0, N |-> 0, hit |-> FALSE]

\* Lines 182-208 on the buffers bufB, bufZ.
RenderFrame(a, bb, bufB, bufZ, u) ==
  RenderFrom(CodeOrder, 1, Len(CodeOrder), a, bb,
             [b |-> Memset(bufB, Space), z |-> Memset(bufZ, 0), ub |-> u,
              loc |-> NoLoc, acc |-> {}])

(***************************************************************************)
(* The frame driver: arguments, raw mode, the loop, the exit path.         *)
(***************************************************************************)
QuitKeys == {113, 81, 27}
\* Bytes a user may type: 'q', 'Q', ESC and one other key, 'a'.
Bytes == QuitKeys \cup {97}
HelpFlags == {"-h", "--help"}
\* errno values that mean "no data available".
NoData == {"EAGAIN", "EWOULDBLOCK"}

One == [num |-> 1, den |-> 1]
\* argv[2] as strtof reads it: absent, not a number, or a number num/den.
Absent == [given |-> FALSE, number |-> FALSE, num |-> 0, den |-> 1]
SpeedArgs ==
  {Absent, [given |-> TRUE, number |-> FALSE, num |-> 0, den |-> 1]}
    \cup {[given |-> TRUE, number |-> TRUE, num |-> f[1], den |-> f[2]] :
            f \in {<<0, 1>>, <<1, 2>>, <<2, 1>>}}
Argvs ==
  {<<"", Absent>>}
    \cup {<<h, Absent>> : h \in HelpFlags}
    \cup {<<"red", a>> : a \in SpeedArgs \ {Absent}}

\* Lines 130-140.
ParseSpeed(a) ==
  IF ~a.given THEN One
  ELSE IF ~a.number \/ a.num <= 0 THEN One
  ELSE [num |-> a.num, den |-> a.den]

\* Line 168.
\* (IsQuitKeyNoEsc: the faulty variant that forgets ESC.)
IsQuitKeyNoEsc(c) == c = 113 \/ c = 81
IsQuitKey(c) == c = 113 \/ c = 81 \/ c = 27

\* Line 174.
FatalRead(n, e) == n = -1 /\ e # "EAGAIN" /\ e # "EWOULDBLOCK"

\* Line 31.
\* (AtexitMissing: the faulty variant that registers nothing.)
AtexitMissing(h) == h
AtexitRegister(h) == h + 1

\* Lines 245-246.
\* (RotateAScaled: the faulty variant that scales the step by speedFactor.)
RotateAScaled(a) == a + Trunc[AStep * speedFactor.num, speedFactor.den]
RotateA(a) == a + AStep
RotateB(a) == a + BStep

\* Line 249: long / float is a float, converted to useconds_t.
\* (SleepIntervalBase: the faulty variant that ignores speedFactor.)
SleepIntervalBase(base, sf) == base
SleepInterval(base, sf) == Trunc[base * sf.den, sf.num]

\* Line 253.
ReturnCode(n, e) == 0

\* A quit key is among the bytes typed and not yet read.
QuitPending(q) == \E k \in 1..Len(q) : q[k] \in QuitKeys

\* exit(): the registered hooks run (lines 15-20), then the process ends.
\* disableRawMode does not look at what tcsetattr returns.
ProcessExit(status) ==
  /\ pc' = "exited"
  /\ exit_status' = status
  /\ disableCalls' = disableCalls + hooks'
  /\ IF hooks' > 0
       THEN /\ restoreRc' \in {0, -1}
            /\ tty' = IF restoreRc' = 0 THEN orig_termios' ELSE tty
            /\ cursor' = "shown"
       ELSE UNCHANGED <<tty, cursor, restoreRc>>

\* Lines 114-150.
ParseArgs ==
  /\ pc = "start"
  /\ IF argv1 \in HelpFlags
       THEN /\ UNCHANGED <<speedFactor, hooks, orig_termios>>
            /\ ProcessExit(0)
       ELSE /\ speedFactor' = ParseSpeed(argv2)
            /\ pc' = "enable"
            /\ UNCHANGED <<hooks, orig_termios, tty, cursor, disableCalls, exit_status, restoreRc>>
  /\ UNCHANGED <<argv1, argv2, enableCalls, input, quit, bytes_read, input_char,
                 errno, A, B, i, j, b, z, loc, acc, ub, emitted, sleepUs, frames,
                 ahead, waited>>

\* Lines 23-52 and 155-159.
EnableRawMode ==
  /\ pc = "enable"
  /\ enableCalls' = enableCalls + 1
  /\ \E getOk \in BOOLEAN, setOk \in BOOLEAN :
       IF ~getOk
         THEN /\ UNCHANGED <<orig_termios, hooks>>
              /\ ProcessExit(1)
              /\ UNCHANGED <<input, ahead, waited>>
         ELSE /\ orig_termios' = tty
              /\ hooks' = AtexitRegister(hooks)
              /\ IF ~setOk
                   THEN /\ ProcessExit(1)
                        /\ UNCHANGED <<input, ahead, waited>>
                   ELSE /\ tty' = "raw"
                        /\ input' = <<>>
                        /\ ahead' = 0
                        /\ waited' = 0
                        /\ cursor' = "hidden"
                        /\ pc' = "loop"
                        /\ UNCHANGED <<disableCalls, exit_status, restoreRc>>
  /\ UNCHANGED <<argv1, argv2, speedFactor, quit, bytes_read, input_char, errno,
                 A, B, i, j, b, z, loc, acc, ub, emitted, sleepUs, frames>>

\* Lines 160-180: the loop test, the read and what follows from its result.
Poll ==
  /\ pc = "loop"
  /\ quit = 0
  /\ frames < MaxFrames
  /\ \/ /\ input # <<>>
        /\ bytes_read' = 1
        /\ input_char' = Head(input)
        /\ input' = Tail(input)
        /\ errno' = errno
     \/ /\ input = <<>>
        /\ bytes_read' = 0
        /\ input_char' = 0
        /\ UNCHANGED <<input, errno>>
     \/ /\ input = <<>>
        /\ bytes_read' = -1
        /\ input_char' = 0
        /\ errno' \in NoData
        /\ UNCHANGED input
     \/ /\ bytes_read' = -1
        /\ input_char' = 0
        /\ errno' = "EIO"
        /\ UNCHANGED input
  /\ waited' = IF QuitPending(input) THEN waited + 1 ELSE waited
  /\ IF (bytes_read' = 1 /\ IsQuitKey(input_char')) \/ FatalRead(bytes_read', errno')
       THEN /\ quit' = 1
            /\ pc' = "loop"
       ELSE /\ quit' = quit
            /\ pc' = "clear"
  /\ UNCHANGED <<argv1, argv2, speedFactor, orig_termios, tty, cursor, hooks,
                 enableCalls, disableCalls, A, B, i, j, b, z, loc, acc, ub,
                 emitted, sleepUs, frames, exit_status, restoreRc, ahead>>

\* The buffers and locals r become the program's.
Stored(r) ==
  /\ b' = r.b
  /\ z' = r.z
  /\ ub' = r.ub
  /\ loc' = r.loc
  /\ acc' = r.acc

\* Lines 182-208, the whole frame.
Render ==
  /\ pc = "clear"
  /\ Stored(RenderFrame(A, B, b, z, ub))
  /\ i' = NumI
  /\ j' = NumJ
  /\ pc' = "emit"
  /\ UNCHANGED <<argv1, argv2, speedFactor, orig_termios, tty, cursor, hooks,
                 enableCalls, disableCalls, input, quit, bytes_read, input_char,
                 errno, A, B, emitted, sleepUs, frames, exit_status, restoreRc, ahead, waited>>

\* Lines 182-183 alone.
Clear ==
  /\ pc = "clear"
  /\ b' = Memset(b, Space)
  /\ z' = Memset(z, 0)
  /\ j' = 0
  /\ i' = 0
  /\ pc' = "sample"
  /\ UNCHANGED <<argv1, argv2, speedFactor, orig_termios, tty, cursor, hooks,
                 enableCalls, disableCalls, input, quit, bytes_read, input_char,
                 errno, A, B, loc, acc, ub, emitted, sleepUs, frames, exit_status, restoreRc,
                 ahead, waited>>

\* Lines 186-208, one pass of the inner loop's body and the loop steps.
SampleOne ==
  /\ pc = "sample"
  /\ Stored(SampleStep([b |-> b, z |-> z, ub |-> ub], A, B, IAngle(i), JAngle(j)))
  /\ IF i + 1 < NumI
       THEN /\ i' = i + 1
            /\ j' = j
            /\ pc' = pc
       ELSE /\ i' = IF j + 1 < NumJ THEN 0 ELSE NumI
            /\ j' = j + 1
            /\ pc' = IF j + 1 < NumJ THEN pc ELSE "emit"
  /\ UNCHANGED <<argv1, argv2, speedFactor, orig_termios, tty, cursor, hooks,
                 enableCalls, disableCalls, input, quit, bytes_read, input_char,
                 errno, A, B, emitted, sleepUs, frames, exit_status, restoreRc, ahead, waited>>

\* Lines 210-242: the frame goes to stdout.
Emit ==
  /\ pc = "emit"
  /\ emitted' = emitted + 1
  /\ pc' = "advance"
  /\ UNCHANGED <<argv1, argv2, speedFactor, orig_termios, tty, cursor, hooks,
                 enableCalls, disableCalls, input, quit, bytes_read, input_char,
                 errno, A, B, i, j, b, z, loc, acc, ub, sleepUs, frames,
                 exit_status, restoreRc, ahead, waited>>

\* Lines 245-246.
Advance ==
  /\ pc = "advance"
  /\ A' = RotateA(A)
  /\ B' = RotateB(B)
  /\ pc' = "sleep"
  /\ UNCHANGED <<argv1, argv2, speedFactor, orig_termios, tty, cursor, hooks,
                 enableCalls, disableCalls, input, quit, bytes_read, input_char,
                 errno, i, j, b, z, loc, acc, ub, emitted, sleepUs, frames,
                 exit_status, restoreRc, ahead, waited>>

\* Line 249, and back to the loop test.
Sleep ==
  /\ pc = "sleep"
  /\ sleepUs' = SleepInterval(baseSleep, speedFactor)
  /\ frames' = frames + 1
  /\ pc' = "loop"
  /\ UNCHANGED <<argv1, argv2, speedFactor, orig_termios, tty, cursor, hooks,
                 enableCalls, disableCalls, input, quit, bytes_read, input_char,
                 errno, A, B, i, j, b, z, loc, acc, ub, emitted, exit_status, restoreRc,
                 ahead, waited>>

\* Lines 160 and 252-253: the loop test fails, main returns.
LoopExit ==
  /\ pc = "loop"
  /\ quit # 0
  /\ UNCHANGED <<hooks, orig_termios>>
  /\ ProcessExit(ReturnCode(bytes_read, errno))
  /\ UNCHANGED <<argv1, argv2, speedFactor, enableCalls, input, quit, bytes_read,
                 input_char, errno, A, B, i, j, b, z, loc, acc, ub, emitted,
                 sleepUs, frames, ahead, waited>>

\* The user types a key while the program runs in raw mode (what was typed
\* before is discarded by TCSAFLUSH at line 45).  Only read() at line 166
\* looks at the queue, so a key typed anywhere in the loop body is a key
\* typed before the next read.
KeyPress ==
  /\ pc = "loop"
  /\ quit = 0
  /\ Len(input) < MaxPending
  /\ \E c \in Bytes :
       /\ input' = Append(input, c)
       /\ IF c \in QuitKeys /\ ~QuitPending(input)
            THEN /\ ahead' = Len(input)
                 /\ waited' = 0
            ELSE UNCHANGED <<ahead, waited>>
  /\ UNCHANGED <<pc, argv1, argv2, speedFactor, orig_termios, tty, cursor, hooks,
                 enableCalls, disableCalls, quit, bytes_read, input_char, errno,
                 A, B, i, j, b, z, loc, acc, ub, emitted, sleepUs, frames,
                 exit_status, restoreRc>>

\* Arrays main never wrote hold anything.
IndetBuffers ==
  {<<[k \in 0..(Cells - 1) |-> Indet], [k \in 0..(Cells - 1) |-> d]>> :
     d \in {0, 2000000000}}

Init ==
  /\ pc = "start"
  /\ \E av \in Argvs : argv1 = av[1] /\ argv2 = av[2]
  /\ speedFactor = One
  /\ orig_termios = "unset"
  /\ tty = "cooked"
  /\ cursor = "shown"
  /\ hooks = 0
  /\ enableCalls = 0
  /\ disableCalls = 0
  /\ input = <<>>
  /\ quit = 0
  /\ bytes_read = 0
  /\ input_char = 0
  /\ errno = "0"
  /\ A = 0
  /\ B = 0
  /\ i = 0
  /\ j = 0
  /\ \E buf \in IndetBuffers : b = buf[1] /\ z = buf[2]
  /\ loc = NoLoc
  /\ acc = {}
  /\ ub = FALSE
  /\ emitted = 0
  /\ sleepUs = 0
  /\ frames = 0
  /\ exit_status = -1
  /\ restoreRc = 0
  /\ ahead = 0
  /\ waited = 0

Next ==
  \/ ParseArgs
  \/ EnableRawMode
  \/ Poll
  \/ Render
  \/ Emit
  \/ Advance
  \/ Sleep
  \/ LoopExit
  \/ KeyPress

Spec == Init /\ [][Next]_vars

\* The state at the top of the loop body of frame n: n iterations completed,
\* the last poll read nothing, the buffers hold what frame n-1 left.
InitRender ==
  /\ pc = "clear"
  /\ argv1 = ""
  /\ argv2 = Absent
  /\ speedFactor = One
  /\ orig_termios = "cooked"
  /\ tty = "raw"
  /\ cursor = "hidden"
  /\ hooks = 1
  /\ enableCalls = 1
  /\ disableCalls = 0
  /\ input = <<>>
  /\ quit = 0
  /\ bytes_read = 0
  /\ input_char = 0
  /\ errno = "0"
  /\ frames \in 0..MaxRenderFrame
  /\ A = AStep * frames
  /\ B = BStep * frames
  /\ IF frames = 0
       THEN /\ \E buf \in IndetBuffers : b = buf[1] /\ z = buf[2]
            /\ loc = NoLoc
            /\ acc = {}
            /\ i = 0
            /\ j = 0
            /\ emitted = 0
            /\ sleepUs = 0
       ELSE \E prev \in {RenderFrame(A - AStep, B - BStep,
                                      [k \in 0..(Cells - 1) |-> Space],
                                      [k \in 0..(Cells - 1) |-> 0], FALSE)} :
                /\ b = prev.b
                /\ z = prev.z
                /\ loc = prev.loc
                /\ acc = prev.acc
                /\ i = NumI
                /\ j = NumJ
                /\ emitted = frames
                /\ sleepUs = SleepInterval(baseSleep, One)
  /\ ub = FALSE
  /\ exit_status = -1
  /\ restoreRc = 0
  /\ ahead = 0
  /\ waited = 0

NextRender ==
  \/ Clear
  \/ SampleOne
  \/ Emit

SpecRender == InitRender /\ [][NextRender]_vars

(***************************************************************************)
(* The properties.                                                         *)
(***************************************************************************)

\* The body's effects a skipped iteration must not have.
BodyEffects == <<A, B, b, z, emitted, sleepUs, frames>>

\* C1: a poll stops the loop (quit becomes 1) if and only if it read 'q',
\* 'Q' or ESC, or read() returned -1 with an errno other than EAGAIN and
\* EWOULDBLOCK; the stopping iteration goes back to the loop test without
\* rendering, emitting, advancing the angles or sleeping; every other poll
\* goes on to the body; and once quit is set it stays set and nothing of
\* the body runs again.
C1_StopIffQuitKeyOrReadFailure ==
  [][/\ (pc = "loop" /\ quit = 0 /\ (pc' # pc \/ quit' # quit)) =>
          LET stop == \/ bytes_read' = 1 /\ input_char' \in {113, 81, 27}
                      \/ bytes_read' = -1 /\ errno' \notin {"EAGAIN", "EWOULDBLOCK"}
          IN /\ (quit' = 1) <=> stop
             /\ stop => pc' = "loop" /\ BodyEffects' = BodyEffects
             /\ ~stop => pc' = "clear" /\ quit' = 0
     /\ quit' # quit => pc = "loop" /\ quit = 0
     /\ quit # 0 => /\ quit' # 0
                    /\ pc' \in {"loop", "exited"}
                    /\ BodyEffects' = BodyEffects]_vars

\* C1 witness: the second iteration read ESC and the process ended with the
\* one frame the first iteration produced.
C1_Witness ==
  /\ pc = "exited"
  /\ quit = 1
  /\ bytes_read = 1
  /\ input_char = 27
  /\ frames = 1
  /\ emitted = 1

\* C2: once the terminal settings were saved, the process never ends
\* without disableRawMode having run exactly once (cursor shown, the saved
\* settings back when tcsetattr accepted them), whether it ends by a quit
\* key, by a read failure or because the raw settings could not be applied;
\* enableRawMode runs exactly once in a run that enters the loop, and the
\* restore never runs while the loop does.
C2_RestoreOnEveryExit ==
  /\ enableCalls <= 1
  /\ (pc = "exited" /\ orig_termios # "unset") =>
        /\ disableCalls = 1
        /\ cursor = "shown"
        /\ restoreRc = 0 => tty = "cooked"
  /\ (pc = "exited" /\ (quit # 0 \/ frames > 0)) => orig_termios # "unset"
  /\ pc \in {"loop", "clear", "emit", "advance", "sleep"} =>
        /\ enableCalls = 1
        /\ disableCalls = 0
        /\ tty = "raw"
        /\ cursor = "hidden"

\* C2 witness: the loop was stopped by a read failure and the terminal is
\* back as it was.
C2_Witness ==
  /\ pc = "exited"
  /\ quit = 1
  /\ bytes_read = -1
  /\ errno = "EIO"
  /\ disableCalls = 1
  /\ tty = "cooked"
  /\ cursor = "shown"

\* C3: when the loop was stopped by a read failure (read() returned -1 with
\* an errno other than EAGAIN and EWOULDBLOCK) the process ends with a
\* non-zero exit status.
C3_ReadFailureExitsNonZero ==
  (pc = "exited" /\ quit = 1 /\ bytes_read = -1
     /\ errno \notin {"EAGAIN", "EWOULDBLOCK"}) => exit_status # 0

\* The samples of a frame in the order given.
FrameSamples(order, a, bb) ==
  [k \in 1..Len(order) |-> Sample(a, bb, IAngle(order[k][1]), JAngle(order[k][2]))]

InBounds(s) == 0 < s.x /\ s.x < 80 /\ 0 < s.y /\ s.y < 22

\* The in-bounds samples of S that project onto cell o.
OnCell(S, o) == {k \in DOMAIN S : InBounds(S[k]) /\ S[k].o = o}

\* The samples of greatest D on cell o.
Deepest(S, o) == {k \in OnCell(S, o) : \A m \in OnCell(S, o) : S[m].D <= S[k].D}

\* The first of them.
FirstDeepest(S, o) == CHOOSE k \in Deepest(S, o) : \A m \in Deepest(S, o) : k <= m

\* Two samples of greatest D on cell o carry different glyphs.
TiedCell(S, o) ==
  \E k \in Deepest(S, o), m \in Deepest(S, o) : Glyph(S[k].N) # Glyph(S[m].N)

\* Buffers r are what the samples S demand: greatest depth, and the glyph
\* of the first sample that has it.
DeepestWins(S, r) ==
  \A k \in DOMAIN S :
    InBounds(S[k]) =>
      \A w \in {FirstDeepest(S, S[k].o)} :
        /\ r.z[S[k].o] = S[w].D
        /\ r.b[S[k].o] = Glyph(S[w].N)

Reversed(order) == [k \in 1..Len(order) |-> order[Len(order) + 1 - k]]

\* The inner loop outside and the outer loop inside.
LoopsSwapped == [k \in 1..(NumI * NumJ) |-> <<(k - 1) \div NumJ, (k - 1) % NumJ>>]

OtherOrders == {Reversed(CodeOrder), LoopsSwapped, Reversed(LoopsSwapped)}

Blank == [k \in 0..(Cells - 1) |-> Space]
Zeroes == [k \in 0..(Cells - 1) |-> 0]

\* The frame's samples evaluated in another order on cleared buffers.
RenderOrder(order, a, bb) ==
  RenderFrom(order, 1, Len(order), a, bb,
             [b |-> Blank, z |-> Zeroes, ub |-> FALSE, loc |-> NoLoc, acc |-> {}])

\* C4 as amended: after the sampling loop every cell that received an
\* in-bounds sample stores the greatest D among the samples that projected
\* onto it and the glyph of the first sample, in evaluation order, that has
\* that D; evaluating the samples in another order gives the same depth
\* buffer, and the same frame buffer except on cells where two samples of
\* greatest D carry different glyphs.
C4_DeepestFirstWins ==
  pc = "emit" =>
    /\ DeepestWins(FrameSamples(CodeOrder, A, B), [b |-> b, z |-> z])
    /\ \A order \in OtherOrders :
         \A r \in {RenderOrder(order, A, B)} :
           /\ DeepestWins(FrameSamples(order, A, B), r)
           /\ r.z = z
           /\ \A o \in 0..(Cells - 1) :
                r.b[o] # b[o] => TiedCell(FrameSamples(CodeOrder, A, B), o)

\* C4 witness: a finished frame in which one cell received two samples of
\* greatest D with different glyphs and another cell a nearer sample after
\* a farther one.
C4_Witness ==
  /\ pc = "emit"
  /\ \A S \in {FrameSamples(CodeOrder, A, B)} :
       /\ \E o \in 0..(Cells - 1) : TiedCell(S, o)
       /\ \E k \in DOMAIN S, m \in DOMAIN S :
            /\ k < m
            /\ InBounds(S[k]) /\ InBounds(S[m])
            /\ S[k].o = S[m].o
            /\ S[k].D < S[m].D

\* C4 as stated: the samples of a frame evaluated in any other order leave
\* the frame buffer and the depth buffer the sampling loop leaves, also
\* when two samples on a cell have equal D and different luminance.
C4_AnyOrderSameBuffers ==
  pc = "emit" =>
    \A order \in OtherOrders :
      \A r \in {RenderOrder(order, A, B)} : r.b = b /\ r.z = z

\* C5: a sample touches the buffers only when 0 < x < 80 and 0 < y < 22,
\* and then only at offset x + 80*y, which lies in 0..1759; no access ever
\* falls outside the buffers; a sample that fails the coordinate test
\* leaves both buffers as they were.
C5_AccessOnlyInsideScreen ==
  /\ [](/\ ~ub
        /\ acc # {} => /\ 0 < loc.x /\ loc.x < 80
                       /\ 0 < loc.y /\ loc.y < 22
                       /\ acc = {loc.x + 80 * loc.y}
                       /\ acc \subseteq 0..1759
        /\ loc.hit => acc # {})
  /\ [][(pc = "sample" /\ ~(0 < loc'.x /\ loc'.x < 80 /\ 0 < loc'.y /\ loc'.y < 22)) =>
          (acc' = {} /\ b' = b /\ z' = z)]_vars

\* C5 witness: the sample evaluated last projected above the first usable
\* row (y = 0, a column on the screen) and touched nothing.
C5_Witness ==
  /\ pc = "sample"
  /\ i + j > 0
  /\ loc.y = 0
  /\ 0 < loc.x /\ loc.x < 80
  /\ acc = {}

\* C6: a sample that passes the depth test writes the glyph of the ramp
\* ".,-~:;=!*#$@" at index max(N, 0); the index is never negative, N <= 0
\* gives index 0, the index never exceeds 11, and the frame buffer holds
\* nothing but blanks and ramp glyphs.
C6_GlyphIsRampAtClampedLuminance ==
  pc \in {"sample", "emit"} =>
    /\ (loc.hit /\ (pc = "emit" \/ i + j > 0)) =>
         \A k \in {IF loc.N > 0 THEN loc.N ELSE 0} :
           /\ k \in 0..11
           /\ b[loc.o] = <<".", ",", "-", "~", ":", ";", "=", "!", "*", "#", "$", "@">>[k + 1]
    /\ \A o \in 0..(Cells - 1) :
         b[o] \in {" ", ".", ",", "-", "~", ":", ";", "=", "!", "*", "#", "$", "@"}

\* C6 witness: a sample of negative luminance passed the depth test and
\* wrote the dimmest glyph.
C6_Witness ==
  /\ pc = "sample"
  /\ i + j > 0
  /\ loc.hit
  /\ loc.N < 0
  /\ b[loc.o] = "."

\* C7: after n completed iterations A is n*0.04 and B is n*0.02 whatever
\* the speed factor (between the advance and the end of the sleep the
\* iteration under way counts too), and the iteration that stops the loop
\* leaves both angles alone.
C7_AnglesAreFrameCountTimesStep ==
  /\ [](/\ pc # "sleep" => A = 4 * frames /\ B = 2 * frames
        /\ pc = "sleep" => A = 4 * (frames + 1) /\ B = 2 * (frames + 1))
  /\ [][quit' # quit => A' = A /\ B' = B]_vars

\* C7 witness: two iterations completed at speed factor 2.
C7_Witness ==
  /\ pc = "loop"
  /\ frames = 2
  /\ speedFactor = [num |-> 2, den |-> 1]
  /\ A = 8
  /\ B = 4

\* C8 as amended: the interval passed to usleep is 33333 / speedFactor with
\* its fraction dropped: a whole number of microseconds not above the
\* quotient and less than one below it; with speedFactor 2.0 it is 16666.
C8_SleepIsTruncatedQuotient ==
  frames > 0 =>
    /\ sleepUs * speedFactor.num <= 33333 * speedFactor.den
    /\ 33333 * speedFactor.den < (sleepUs + 1) * speedFactor.num
    /\ speedFactor = [num |-> 2, den |-> 1] => sleepUs = 16666

\* C8 witness: a frame slept at speed factor 2.0.
C8_Witness ==
  /\ frames > 0
  /\ speedFactor = [num |-> 2, den |-> 1]
  /\ sleepUs = 16666

\* C8 as stated: the interval passed to usleep equals 33333 / speedFactor,
\* so that with speedFactor 2.0 twice the interval is 33333.
C8_SleepIsExactQuotient ==
  frames > 0 => sleepUs * speedFactor.num = 33333 * speedFactor.den

\* Position of the oldest quit key among the pending bytes.
OldestQuit(q) ==
  CHOOSE k \in 1..Len(q) :
    q[k] \in {113, 81, 27} /\ \A m \in 1..(k - 1) : q[m] \notin {113, 81, 27}

\* C9 as amended: a poll reads at most one pending byte, oldest first, so a
\* quit key typed with k bytes pending ahead of it moves one place forward
\* with each poll and stops the loop at the (k+1)-th poll after it was
\* typed (unless a read failure stops it before): at the next poll only
\* when nothing was pending ahead of it.
C9_QuitKeySeenWhenItsTurnComes ==
  /\ [](/\ (quit = 0 /\ pc # "exited" /\ \E k \in 1..Len(input) : input[k] \in {113, 81, 27}) =>
             OldestQuit(input) + waited = ahead + 1
        /\ (quit = 1 /\ bytes_read = 1) => waited = ahead + 1)
  /\ [][(pc = "loop" /\ quit = 0 /\ (pc' # pc \/ quit' # quit)) =>
          /\ Len(input') >= Len(input) - 1
          /\ (input # <<>> /\ Head(input) \in {113, 81, 27} /\ bytes_read' # -1) => quit' = 1
          /\ (input # <<>> /\ Head(input) \notin {113, 81, 27} /\ bytes_read' # -1) =>
                quit' = 0 /\ input' = Tail(input)]_vars

\* C9 witness: ESC typed behind one other pending byte stopped the loop at
\* the second poll after it.
C9_Witness ==
  /\ quit = 1
  /\ bytes_read = 1
  /\ input_char = 27
  /\ ahead = 1
  /\ waited = 2

\* C9 as stated: whatever bytes are pending, a poll made while a quit key
\* is pending stops the loop.
C9_QuitKeySeenAtNextPoll ==
  [][(pc = "loop" /\ quit = 0 /\ (pc' # pc \/ quit' # quit)
        /\ \E k \in 1..Len(input) : input[k] \in {113, 81, 27}) => quit' = 1]_vars

\* C10: before the first sample of an iteration every cell of the frame
\* buffer is blank and every depth is zero, and what the sampling loop
\* leaves is what it leaves from any other prior contents of the buffers
\* at the same angles.
C10_BuffersClearedEachFrame ==
  /\ (pc = "sample" /\ i = 0 /\ j = 0) =>
        /\ \A o \in 0..1759 : b[o] = " " /\ z[o] = 0
        /\ DOMAIN b = 0..1759 /\ DOMAIN z = 0..1759
  /\ pc = "emit" =>
        \A prior \in IndetBuffers :
          \A r \in {RenderFrame(A, B, prior[1], prior[2], FALSE)} : r.b = b /\ r.z = z

\* C10 witness: a frame after the first is about to evaluate its first
\* sample: the buffers the previous frame filled are clear.
C10_Witness ==
  /\ pc = "sample"
  /\ i = 0
  /\ j = 0
  /\ frames > 0
  /\ b = Blank
  /\ z = Zeroes
=============================================================================
